---- MODULE Spec2Model ----
(***************************************************************************)
(* Model of the web-texture-tool loader: the worker pool scheduler (class  *)
(* p, the pending table d, the id counter C and the response handler X of  *)
(* build/webgpu-texture-loader.js), the loader dispatch (B, U, S) and the  *)
(* WebGPU texture client (j).                                              *)
(*                                                                         *)
(* The main thread is single threaded and runs every handler to its end,   *)
(* so a handler is one action.  Workers are separate threads: a request    *)
(* that was posted stays in `requests` until the main thread's onmessage   *)
(* handler runs for its response, in any order.                            *)
(*                                                                         *)
(* Further parts, each with a specification of its own: the thread of a    *)
(* basis worker (src/webgpu-texture-tool.js), the texture clients and the  *)
(* mipmap generator G, the loader table (P, U, B, f, T) and the selection  *)
(* of the transcode target in the basis and ktx workers.                   *)
(***************************************************************************)
EXTENDS Integers, Sequences, FiniteSets

\* ------------------------------------------------------------------ bounds
\* number of requests dispatched to workers in one behaviour
MaxCalls == 4
\* the same, in the specification of the life cycle
MaxClientCalls == 2
\* number of browser image decodes pending at the same time
MaxImages == 1
\* number of Blob.arrayBuffer() reads pending at the same time
MaxBlobs == 1
\* number of those requests that go to the second pool
MaxKtxCalls == 1
\* how far responses with an unknown id push a counter of a pool below zero
MaxUnknown == 1
\* number of requests dispatched in the specification of these responses
MaxUnknownCalls == 2
\* number of requests a worker receives
MaxJobs == 3
\* number of textures the texture clients build
MaxTextures == 3
\* number of requests handed to one loader of the table
MaxServed == 2
\* the textures that are built have the sides 1..MaxDim, and 64, 100 and 257
MaxDim == 9
\* length of the buffers slices are taken from
MaxBytes == 2
\* number of setSlice calls on one TextureData after its construction
MaxSets == 1
\* number of mip levels of a basis file
MaxLevels == 3

\* --------------------------------------------------------------- constants
\* V: maximum number of workers of one pool
V == 4

Null == "null"
Undefined == "undefined"

\* b: the formats of the registry with canGenerateMipmaps
Renderable == {"rgb8unorm", "rgba8unorm", "rgb8unorm-srgb", "rgba8unorm-srgb",
               "rgb565unorm", "rgba4unorm", "rgba5551unorm", "bgra8unorm",
               "bgra8unorm-srgb"}

\* a registry in which every format can generate mipmaps
canGenerateMipmaps_All(format) == TRUE

canGenerateMipmaps(format) == format \in Renderable

\* the formats of the textures the model builds
MipFormats == {"rgba8unorm", "bgra8unorm", "bc1-rgb-unorm"}

\* the worker pools of the strategy table U that the model exercises
Pools == {"basis", "ktx"}

VARIABLES
  C,            \* the process-wide correlation id counter
  d,            \* the pending table: id -> PendingRequest
  loader,       \* per strategy: the cached pool instance, or Null
  requests,     \* messages posted to a worker whose response is not handled yet
  terminated,   \* pools on whose workers terminate() was called
  n,            \* S[n]: the client of the loader object, or Null
  device,       \* j.device, or Null
  imageLoads,   \* pending fetch/createImageBitmap continuations of T
  blobReads,    \* per pool: pending Blob.arrayBuffer() continuations
  futures,      \* the promises handed to callers, in dispatch order
  poolDestroyCalled,      \* pools on which destroy() was called
  clientDestroyCalled,    \* destroy() was called on the loader object
  futuresAtDestroy,       \* number of futures handed out before that call
  lastOp,       \* what the last handler did, when it was a call of the public API
  codec,        \* basis worker: the state of the BASIS_INITIALIZED promise
  jobs,         \* basis worker: the requests it received, by id
  pipelines,    \* G.pipelines: output format -> the cached pipeline, or 0
  pipelinesCreated,  \* per output format: the number of createRenderPipeline calls
  textures,     \* the calls of the texture clients that produced a texture
  strategy,     \* f.loader of each entry of U: the instance, or 0
  instances,    \* per entry of U: the number of calls of its callback
  served,       \* per entry of U: the number of requests handed to it
  lastRequest,  \* the last loader call, its MIME type and where it went
  container,    \* the file a worker transcodes and the formats of the request
  target,       \* the transcode target the worker selected for it, or "none"
  source,       \* the bitmap or TextureData a texture client builds a texture from
  commands,     \* the calls the client and the generator made on the device for it
  result,       \* the result the client returned for it
  textureData,  \* a TextureData (class I) and its levels (class F)
  thrown,       \* whether the last setSlice on it threw
  lastSet,      \* the arguments of the last setSlice on it
  sets,         \* the number of setSlice calls on it
  gpuCalls,     \* the number of device and queue calls made for it
  uploads,      \* the writeTexture calls made for it, in order
  uploadFailed, \* whether fromTextureData threw while it wrote the slices
  basisFile,    \* the basis file one call of transcode of the basis worker opens
  calls         \* the calls that transcode made on the file and on postMessage

poolVars == <<C, d, loader, requests, futures>>
clientVars == <<n, device>>
asyncVars == <<imageLoads, blobReads>>
histVars == <<poolDestroyCalled, clientDestroyCalled, futuresAtDestroy>>

\* the main thread of the loader
loaderVars == <<C, d, loader, requests, terminated, n, device, imageLoads, blobReads,
                futures, poolDestroyCalled, clientDestroyCalled, futuresAtDestroy,
                lastOp>>
\* the thread of a basis worker
workerVars == <<codec, jobs>>

\* the texture clients and the mipmap generator
gpuVars == <<pipelines, pipelinesCreated, textures>>

\* the loader table
tableVars == <<strategy, instances, served, lastRequest>>

\* what the scheduler and the life cycle of the loader leave alone
\* the build of one texture
buildVars == <<source, commands, result>>

\* one TextureData
dataVars == <<textureData, thrown, lastSet, sets, gpuCalls, uploads, uploadFailed>>

\* one call of transcode of the basis worker
fileVars == <<basisFile, calls>>

auxVars == <<workerVars, gpuVars, tableVars, container, target, buildVars, dataVars, fileVars>>

vars == <<loaderVars, auxVars>>

\* ------------------------------------------------------------ loader table
\* U / S constructor: MIME type -> strategy; "*" is the image loader U[0]
ImageMimes == {"image/jpeg", "image/png", "image/apng", "image/gif", "image/bmp",
               "image/webp", "image/x-icon", "image/svg+xml"}

MimeInputs == {"image/basis", "image/ktx2", "image/png", "application/x", Undefined}

StrategyOf(mime) ==
  CASE mime = "image/basis" -> "basis"
    [] mime \in {"image/ktx", "image/ktx2"} -> "ktx"
    [] mime = "image/vnd.ms-dds" -> "dds"
    [] mime \in ImageMimes -> "image"
    [] OTHER -> "*"

\* B: the strategy that serves a MIME type, "throw" when no MIME type is given
B(mime) ==
  IF mime = Undefined THEN "throw"
  ELSE IF StrategyOf(mime) = "*" THEN "image" ELSE StrategyOf(mime)

\* the entries of U
Strategies == {"image", "basis", "ktx", "dds"}

\* P: extension -> MIME type, Undefined for a key that P does not have
P(ext) ==
  CASE ext \in {"jpg", "jpeg"} -> "image/jpeg"
    [] ext = "png" -> "image/png"
    [] ext = "apng" -> "image/apng"
    [] ext = "gif" -> "image/gif"
    [] ext = "bmp" -> "image/bmp"
    [] ext = "webp" -> "image/webp"
    [] ext \in {"ico", "cur"} -> "image/x-icon"
    [] ext = "svg" -> "image/svg+xml"
    [] ext = "basis" -> "image/basis"
    [] ext = "ktx" -> "image/ktx"
    [] ext = "ktx2" -> "image/ktx2"
    [] ext = "dds" -> "image/vnd.ms-dds"
    [] OTHER -> Undefined

\* String.toLowerCase on the extensions the model uses
toLowerCase(ext) ==
  CASE ext = "JPG" -> "jpg"
    [] ext = "PNG" -> "png"
    [] OTHER -> ext

\* A path or file name is the sequence of its parts between the dots:
\* lastIndexOf(".") > -1 when there are two parts or more, and
\* substring(s + 1) is the last part.  << >> is no file name at all.
Names == {<<"a", "png">>, <<"a", "JPG">>, <<"a", "b", "basis">>, <<"a", "ktx2">>,
          <<"a", "dds">>, <<"a", "xyz">>, <<"a">>}

\* S.fromUrl: options.mimeType, or P of the extension of the path, or P["*"]
UrlMime(declared, name) ==
  IF declared # Undefined THEN declared
  ELSE P(IF Len(name) > 1 THEN toLowerCase(name[Len(name)]) ELSE "*")

\* S.fromBuffer: options.mimeType, or P of the extension of options.filename,
\* or P[null]
BufferMime(declared, name) ==
  IF declared = Undefined /\ name # << >>
    THEN P(IF Len(name) > 1 THEN toLowerCase(name[Len(name)]) ELSE Null)
    ELSE declared

\* the table k: MIME type -> the format the image loader asks for
formatOf(mime) ==
  CASE mime \in {"image/jpeg", "image/bmp"} -> "rgb8unorm"
    [] mime \in ImageMimes \ {"image/jpeg", "image/bmp"} -> "rgba8unorm"
    [] OTHER -> Undefined

\* O: the formats of the device feature "texture-compression-bc"
FeatureFormats == {"bc1-rgba-unorm", "bc1-rgba-unorm-srgb", "bc2-rgba-unorm",
                   "bc2-rgba-unorm-srgb", "bc3-rgba-unorm", "bc3-rgba-unorm-srgb",
                   "bc7-rgba-unorm", "bc7-rgba-unorm-srgb"}

\* j constructor: supportedFormatList of a device with or without the feature
supportedFormatList(bc) ==
  {"rgba8unorm", "rgba8unorm-srgb", "bgra8unorm", "bgra8unorm-srgb"}
    \cup (IF bc THEN FeatureFormats ELSE {})

\* a negotiation that keeps the format of the table k
T_format_Keep(mime, list) == formatOf(mime)

\* T.fromUrl / T.fromBlob: o = k[mimeType], "rgba8unorm" when
\* supportedFormatList.indexOf(o) == -1
T_format(mime, list) == IF formatOf(mime) \notin list THEN "rgba8unorm" ELSE formatOf(mime)

\* a getLoader that calls the callback every time
f_getLoader_Fresh(s) == [loader |-> instances[s] + 1, created |-> TRUE]

\* f.getLoader: this.loader, set from this.callback() when it is null.  An
\* instance is named by the number of the callback call that made it.
f_getLoader(s) ==
  IF strategy[s] # 0 THEN [loader |-> strategy[s], created |-> FALSE]
  ELSE [loader |-> instances[s] + 1, created |-> TRUE]

Request(api, declared, name, mime, outcome, s, instance, list, format) ==
  [api |-> api, declared |-> declared, name |-> name, mime |-> mime,
   outcome |-> outcome, strategy |-> s, instance |-> instance,
   supported |-> list, format |-> format]

NoRequest == Request("none", Undefined, << >>, Undefined, "none", "none", 0, {}, "none")

\* ------------------------------------------------------------- worker pool
\* p constructor: an empty pool, then addWorker()
NewPool == [created |-> TRUE, workerPool |-> 1, nextWorker |-> 0,
            outstandingRequests |-> 0]

\* f.loader = null: the strategy has no instance yet
NoPool == [created |-> FALSE, workerPool |-> 0, nextWorker |-> 0,
           outstandingRequests |-> 0]

\* f.getLoader: the cached instance, created on first use
getLoader(pl) == IF loader[pl].created THEN loader[pl] ELSE NewPool

\* selectWorker that compares the counter before incrementing it
selectWorker_TestFirst(pool) ==
  LET out == pool.outstandingRequests + 1 IN
  IF pool.outstandingRequests >= pool.workerPool /\ pool.workerPool < V
    THEN [pool |-> [pool EXCEPT !.outstandingRequests = out,
                                !.workerPool = pool.workerPool + 1],
          worker |-> pool.workerPool]
    ELSE [pool |-> [pool EXCEPT !.outstandingRequests = out,
                                !.nextWorker = pool.nextWorker + 1],
          worker |-> pool.nextWorker % pool.workerPool]

\* selectWorker without the test against the maximum V
selectWorker_NoMax(pool) ==
  LET out == pool.outstandingRequests + 1 IN
  IF out >= pool.workerPool
    THEN [pool |-> [pool EXCEPT !.outstandingRequests = out,
                                !.workerPool = pool.workerPool + 1],
          worker |-> pool.workerPool]
    ELSE [pool |-> [pool EXCEPT !.outstandingRequests = out,
                                !.nextWorker = pool.nextWorker + 1],
          worker |-> pool.nextWorker % pool.workerPool]

\* selectWorker that grows the pool whenever it is below the maximum
selectWorker_AlwaysGrow(pool) ==
  LET out == pool.outstandingRequests + 1 IN
  IF pool.workerPool < V
    THEN [pool |-> [pool EXCEPT !.outstandingRequests = out,
                                !.workerPool = pool.workerPool + 1],
          worker |-> pool.workerPool]
    ELSE [pool |-> [pool EXCEPT !.outstandingRequests = out,
                                !.nextWorker = pool.nextWorker + 1],
          worker |-> pool.nextWorker % pool.workerPool]

\* p.selectWorker: the pool after the call, the index of the worker chosen
selectWorker(pool) ==
  LET out == pool.outstandingRequests + 1 IN
  IF out >= pool.workerPool /\ pool.workerPool < V
    THEN [pool |-> [pool EXCEPT !.outstandingRequests = out,
                                !.workerPool = pool.workerPool + 1],
          worker |-> pool.workerPool]
    ELSE [pool |-> [pool EXCEPT !.outstandingRequests = out,
                                !.nextWorker = pool.nextWorker + 1],
          worker |-> pool.nextWorker % pool.workerPool]

\* an allocation that reads the counter and does not advance it
NextId_Stuck(c) == c

\* C++ : the value of the counter after an allocation
NextId(c) == c + 1

\* a dispatch that returns the promise and records nothing
Record_Never(tbl, o, entry) == tbl

\* d[o] = new L(client, options, resolve, reject)
Record(tbl, o, entry) ==
  [i \in DOMAIN tbl \cup {o} |-> IF i = o THEN entry ELSE tbl[i]]

\* a delete that empties the whole table
Remove_All(tbl, id) == << >>

\* delete d[id]
Remove(tbl, id) == [i \in DOMAIN tbl \ {id} |-> tbl[i]]

\* a lookup that takes the oldest pending request, whatever id the response has
Lookup_Oldest(tbl, id) ==
  IF DOMAIN tbl = {} THEN 0
  ELSE CHOOSE i \in DOMAIN tbl : \A i2 \in DOMAIN tbl : i <= i2

\* X: let e = d[a.data.id]: the key of the entry found, 0 when there is none
Lookup(tbl, id) == IF id \in DOMAIN tbl THEN id ELSE 0

\* the promise p.fromUrl / p.fromBuffer returns, with the request it stands for
NewFuture(pl, o, w) ==
  [state |-> "pending", reason |-> "none", pool |-> pl, id |-> o, worker |-> w]

Op(name, outcome, gpu, sent) ==
  [op |-> name, outcome |-> outcome, gpu |-> gpu, sent |-> sent]

\* the last handler was not a call of the public API
Idle == Op("none", "none", FALSE, FALSE)

\* p.fromUrl / p.fromBuffer: allocate the id, select the worker, post the
\* message, then create the promise whose executor records the request
Dispatch(pl) ==
  LET o   == C
      sel == selectWorker(getLoader(pl))
      k   == Len(futures) + 1
      msg == [id |-> o, pool |-> pl, worker |-> sel.worker, call |-> k,
              recorded |-> o \in DOMAIN d]
  IN /\ C' = NextId(C)
     /\ loader' = [loader EXCEPT ![pl] = sel.pool]
     /\ requests' = requests \cup {msg}
     /\ futures' = Append(futures, NewFuture(pl, o, sel.worker))
     /\ d' = Record(d, o, [client |-> "j", fut |-> k])

\* the file of a request in a worker: the worker, getHasAlpha(), and the
\* supportedFormats of the message
Container(worker, hasAlpha, supported) ==
  [worker |-> worker, hasAlpha |-> hasAlpha, supported |-> supported]

NoContainer == Container("none", FALSE, {})

\* what a texture is built from.  kind: "bitmap" (j.fromImageBitmap), "data"
\* (j.fromTextureData) or "legacy" (WebGPUTextureClient.textureFromTextureData);
\* depth: textureData.depth, 0 when the field is undefined; levels: the number
\* of levels the data holds; mipmaps: options.mipmaps
Source(kind, format, width, height, depth, levels, mipmaps) ==
  [kind |-> kind, format |-> format, width |-> width, height |-> height,
   depth |-> depth, levels |-> levels, mipmaps |-> mipmaps]

NoSource == Source("none", "none", 1, 1, 0, 0, FALSE)

\* the result E of a client; waiting: generateMipmap of the legacy client is
\* suspended in `await this.mipmapReady`
Result(done, mipLevels, waiting) ==
  [done |-> done, mipLevels |-> mipLevels, waiting |-> waiting]

NoResult == Result(FALSE, 0, FALSE)

\* -------------------------------------------------------------- TextureData
\* the levels and the slice indices the model addresses
LevelIndices == {0, 1}

SliceIndices == {0, 1}

\* the base size of the TextureData the model builds
BaseWidth == 5

BaseHeight == 2

\* an ArrayBuffer of len bytes; byte i holds i
Buffer(len) == [i \in 1..len |-> i]

\* the image argument of setSlice: an ArrayBuffer (view = FALSE), or a typed
\* array view of byteLength bytes at byteOffset of its buffer
Image(view, buffer, byteOffset, byteLength) ==
  [view |-> view, buffer |-> buffer, byteOffset |-> byteOffset, byteLength |-> byteLength]

\* the options argument of setSlice; 0 stands for an absent field, which
\* `r.byteOffset || 0` and `r.byteLength || 0` turn into 0 as well
Options(byteOffset, byteLength) == [byteOffset |-> byteOffset, byteLength |-> byteLength]

\* an entry of F.slices; set = FALSE is the undefined entry
Slice(buffer, byteOffset, byteLength) ==
  [set |-> TRUE, buffer |-> buffer, byteOffset |-> byteOffset, byteLength |-> byteLength]

NoSlice == [set |-> FALSE, buffer |-> << >>, byteOffset |-> 0, byteLength |-> 0]

\* x >> e for the small non-negative integers of the model
RECURSIVE ShiftRight(_, _)
ShiftRight(x, e) == IF e = 0 THEN x ELSE ShiftRight(x \div 2, e - 1)

\* new F(textureData, levelIndex, {}): width = Math.max(1, width >> levelIndex)
F(width, height, levelIndex) ==
  [made |-> TRUE,
   levelIndex |-> levelIndex,
   width |-> IF ShiftRight(width, levelIndex) >= 1 THEN ShiftRight(width, levelIndex) ELSE 1,
   height |-> IF ShiftRight(height, levelIndex) >= 1 THEN ShiftRight(height, levelIndex) ELSE 1,
   slices |-> [e \in SliceIndices |-> NoSlice]]

\* an entry of I.levels that getLevel has not made yet
NoLevel ==
  [made |-> FALSE, levelIndex |-> 0, width |-> 0, height |-> 0,
   slices |-> [e \in SliceIndices |-> NoSlice]]

\* new I(format, width, height) without an image
I(format, width, height) ==
  [format |-> format,
   width |-> IF width >= 1 THEN width ELSE 1,
   height |-> IF height >= 1 THEN height ELSE 1,
   levels |-> [e \in LevelIndices |-> NoLevel]]

\* I.getLevel(e): the level is made on first access and kept
getLevel(data, e) ==
  IF data.levels[e].made THEN data
  ELSE [data EXCEPT !.levels[e] = F(data.width, data.height, e)]

\* setSlice throws "Cannot define an image slice twice."
setSlice_throws(data, level, e) == getLevel(data, level).levels[level].slices[e].set

\* an entry that leaves out the offset of the view in its buffer
StoredSlice_NoViewOffset(t, r) ==
  Slice(t.buffer, r.byteOffset,
        IF r.byteLength # 0 THEN r.byteLength ELSE t.byteLength - r.byteOffset)

\* the entry setSlice stores: o = r.byteOffset || 0, s = r.byteLength || 0; for
\* an ArrayBuffer s || (s = i.byteLength - o), for a view i = t.buffer,
\* s || (s = t.byteLength - o), o += t.byteOffset
StoredSlice(t, r) ==
  IF ~t.view
    THEN Slice(t.buffer, r.byteOffset,
               IF r.byteLength # 0 THEN r.byteLength ELSE Len(t.buffer) - r.byteOffset)
    ELSE Slice(t.buffer, r.byteOffset + t.byteOffset,
               IF r.byteLength # 0 THEN r.byteLength ELSE t.byteLength - r.byteOffset)

\* a setSlice that replaces the entry it finds
setSlice_Overwrite(data, level, e, t, r) ==
  [getLevel(data, level) EXCEPT !.levels[level].slices[e] = StoredSlice(t, r)]

\* getLevel(level).setSlice(e, t, r): the TextureData afterwards
setSlice(data, level, e, t, r) ==
  IF setSlice_throws(data, level, e) THEN getLevel(data, level)
  ELSE [getLevel(data, level) EXCEPT !.levels[level].slices[e] = StoredSlice(t, r)]

\* the arguments of a setSlice call
SetCall(level, e, t, r) == [called |-> TRUE, level |-> level, slice |-> e, image |-> t, options |-> r]

NoSetCall ==
  [called |-> FALSE, level |-> 0, slice |-> 0, image |-> Image(FALSE, << >>, 0, 0),
   options |-> Options(0, 0)]

\* no TextureData is being assembled
NoData ==
  /\ textureData = I("none", 1, 1)
  /\ thrown = FALSE
  /\ lastSet = NoSetCall
  /\ sets = 0
  /\ gpuCalls = 0
  /\ uploads = << >>
  /\ uploadFailed = FALSE

\* the basis file of a call of transcode and the arguments of the call.
\* images: getNumImages(); levels: getNumLevels(0); hasAlpha: getHasAlpha();
\* startOk: what startTranscoding() returns; failAt: the call of
\* transcodeImage that returns false, 0 if none does; supported, mipmaps: the
\* arguments supportedFormats and mipmaps
BasisFile(images, levels, hasAlpha, startOk, failAt, supported, mipmaps) ==
  [images |-> images, levels |-> levels, hasAlpha |-> hasAlpha, startOk |-> startOk,
   failAt |-> failAt, supported |-> supported, mipmaps |-> mipmaps]

\* transcode is not running
NoFile ==
  /\ basisFile = BasisFile(0, 0, FALSE, FALSE, 0, {}, FALSE)
  /\ calls = << >>

Constructed ==
  /\ C = 1
  /\ d = << >>
  /\ loader = [pl \in Pools |-> NoPool]
  /\ requests = {}
  /\ terminated = {}
  /\ n = "j"
  /\ device = "device"
  /\ imageLoads = 0
  /\ blobReads = [pl \in Pools |-> 0]
  /\ futures = << >>
  /\ poolDestroyCalled = {}
  /\ clientDestroyCalled = FALSE
  /\ futuresAtDestroy = 0
  /\ lastOp = Idle
  /\ codec = "loading"
  /\ jobs = << >>
  /\ pipelines = [f \in MipFormats |-> 0]
  /\ pipelinesCreated = [f \in MipFormats |-> 0]
  /\ textures = << >>
  /\ strategy = [s \in Strategies |-> 0]
  /\ instances = [s \in Strategies |-> 0]
  /\ served = [s \in Strategies |-> 0]
  /\ lastRequest = NoRequest

\* no texture is being built
NoBuild ==
  /\ source = NoSource
  /\ commands = << >>
  /\ result = NoResult

\* no file is being transcoded
NoTranscode ==
  /\ container = NoContainer
  /\ target = "none"

Init ==
  /\ Constructed
  /\ NoTranscode
  /\ NoBuild
  /\ NoData
  /\ NoFile

\* the call throws before it changes anything
Failed == UNCHANGED <<poolVars, clientVars, asyncVars, histVars, terminated>>

\* S.fromUrl / S.fromBuffer / S.fromBlob up to the call of the strategy:
\* the destroyed check, then B
Route(mime) ==
  IF n = Null \/ B(mime) = "throw" THEN "throw" ELSE B(mime)

BlobTotal == blobReads["basis"] + blobReads["ktx"]

KtxCalls == Cardinality({k \in 1..Len(futures) : futures[k].pool = "ktx"}) + blobReads["ktx"]

\* the exploration bound on the requests of a behaviour
MayDispatch(pl) ==
  /\ Len(futures) + BlobTotal < MaxCalls
  /\ pl = "ktx" => KtxCalls < MaxKtxCalls

\* T.fromUrl / T.fromBlob / T.fromBuffer: start the fetch and the image decode
T_load ==
  /\ imageLoads < MaxImages
  /\ imageLoads' = imageLoads + 1
  /\ UNCHANGED <<poolVars, clientVars, blobReads, histVars, terminated>>

\* S.fromUrl(url, options): mime is options.mimeType or P[extension of url]
S_fromUrl(mime) ==
  IF Route(mime) = "throw" THEN Failed
  ELSE IF Route(mime) = "image" THEN T_load
  ELSE /\ MayDispatch(Route(mime))
       /\ Dispatch(Route(mime))
       /\ UNCHANGED <<clientVars, asyncVars, histVars, terminated>>

\* S.fromBuffer(buffer, options): mime is options.mimeType or P[extension of filename]
S_fromBuffer(mime) ==
  IF Route(mime) = "throw" THEN Failed
  ELSE IF Route(mime) = "image" THEN T_load
  ELSE /\ MayDispatch(Route(mime))
       /\ Dispatch(Route(mime))
       /\ UNCHANGED <<clientVars, asyncVars, histVars, terminated>>

\* S.fromBlob(blob, options): mime is blob.type; p.fromBlob awaits the bytes
S_fromBlob(mime) ==
  IF Route(mime) = "throw" THEN Failed
  ELSE IF Route(mime) = "image" THEN T_load
  ELSE /\ BlobTotal < MaxBlobs
       /\ MayDispatch(Route(mime))
       /\ blobReads' = [blobReads EXCEPT ![Route(mime)] = @ + 1]
       /\ loader' = [loader EXCEPT ![Route(mime)] = getLoader(Route(mime))]
       /\ UNCHANGED <<C, d, requests, futures, clientVars, imageLoads, histVars,
                      terminated>>

\* p.fromBlob after `await blob.arrayBuffer()`: return this.fromBuffer(...)
p_fromBlob(pl) ==
  /\ blobReads[pl] > 0
  /\ blobReads' = [blobReads EXCEPT ![pl] = @ - 1]
  /\ Dispatch(pl)
  /\ UNCHANGED <<clientVars, imageLoads, histVars, terminated>>

\* the field this.worker of a pool: no statement of class p assigns it
workerField(pool) == Undefined

\* p.destroy(): if (this.worker) { terminate; reject every entry of d }
\* The loop `for (let t of d)` iterates a plain object and throws a TypeError
\* before the first reject.
p_destroy(pl) ==
  /\ loader[pl].created
  /\ pl \notin poolDestroyCalled
  /\ poolDestroyCalled' = poolDestroyCalled \cup {pl}
  /\ terminated' = IF workerField(loader[pl]) # Undefined
                     THEN terminated \cup {pl} ELSE terminated
  /\ UNCHANGED <<poolVars, clientVars, asyncVars, clientDestroyCalled,
                 futuresAtDestroy>>

\* j.destroy(): this.device = null
j_destroy(dev) == Null

\* a destroy() that leaves the client in place
S_destroy_Keep ==
  /\ clientDestroyCalled' = TRUE
  /\ futuresAtDestroy' = IF clientDestroyCalled THEN futuresAtDestroy ELSE Len(futures)
  /\ UNCHANGED <<poolVars, clientVars, asyncVars, poolDestroyCalled, terminated>>

\* S.destroy(): this[n] && (this[n].destroy(), this[n] = null)
S_destroy ==
  /\ n' = IF n # Null THEN Null ELSE n
  /\ device' = IF n # Null THEN j_destroy(device) ELSE device
  /\ clientDestroyCalled' = TRUE
  /\ futuresAtDestroy' = IF clientDestroyCalled THEN futuresAtDestroy ELSE Len(futures)
  /\ UNCHANGED <<poolVars, asyncVars, poolDestroyCalled, terminated>>

\* j.fromTextureData / j.fromImageBitmap: the destroyed check, then the GPU
\* calls; deviceError: createTexture or the queue throws
j_build(dev, deviceError) ==
  IF dev = Null THEN [outcome |-> "error", gpu |-> FALSE]
  ELSE IF deviceError THEN [outcome |-> "error", gpu |-> TRUE]
  ELSE [outcome |-> "texture", gpu |-> TRUE]

Settle(k, st, why) == [futures EXCEPT ![k].state = st, ![k].reason = why]

Decrement(pl) == [loader EXCEPT ![pl].outstandingRequests = @ - 1]

\* X(t), this.outstandingRequests--: the body of the onmessage closure of
\* p.addWorker for the response m; err: the response carries an error
Handle(m, err, deviceError) ==
  LET key == Lookup(d, m.id)
      e == d[key]
      built == j_build(device, deviceError)
  IN IF key = 0
       THEN /\ d' = d
            /\ futures' = futures
            /\ loader' = Decrement(m.pool)
       ELSE /\ d' = Remove(d, m.id)
            /\ IF err
                 THEN /\ futures' = Settle(e.fut, "rejected", "error")
                      /\ loader' = Decrement(m.pool)
                 ELSE IF built.outcome = "error"
                   THEN /\ futures' = futures
                        /\ loader' = loader
                   ELSE /\ futures' = Settle(e.fut, "resolved", "none")
                        /\ loader' = Decrement(m.pool)

\* the onmessage closure of p.addWorker runs for the response to request m
onmessage(m, err, deviceError) ==
  /\ m \in requests
  /\ m.pool \notin terminated
  /\ requests' = requests \ {m}
  /\ Handle(m, err, deviceError)
  /\ UNCHANGED <<C, clientVars, asyncVars, histVars, terminated>>

\* the ids a worker can name in a response that answers no waiting request:
\* the ids that were handed out, and whose response was handled already
UnknownIds == {i \in 1..(C - 1) : i \notin DOMAIN d /\ \A m \in requests : m.id # i}

\* the onmessage closure of p.addWorker runs for a message of a worker of pool
\* pl that carries an id of UnknownIds (a worker that answers a second time)
onmessageUnknown(pl, id, err, deviceError) ==
  /\ loader[pl].created
  /\ pl \notin terminated
  /\ id \in UnknownIds
  /\ loader[pl].outstandingRequests > 0 - MaxUnknown
  /\ Handle([id |-> id, pool |-> pl], err, deviceError)
  /\ UNCHANGED <<C, requests, clientVars, asyncVars, histVars, terminated>>

\* T.fromUrl / T.fromBlob after the awaits: e.fromImageBitmap(bitmap, format, options)
ImageDecoded ==
  /\ imageLoads > 0
  /\ imageLoads' = imageLoads - 1
  /\ UNCHANGED <<poolVars, clientVars, blobReads, histVars, terminated>>

ColorFormats == {"rgba8unorm", "rgba8unorm-srgb", "bgra8unorm"}

\* S.fromColor(r, g, b, a, format): what the call returns and whether it
\* reached the GPU; the call changes nothing in the loader
fromColor(format, deviceError) ==
  IF n = Null \/ format \notin {"rgba8unorm", "rgba8unorm-srgb"}
    THEN [outcome |-> "error", gpu |-> FALSE]
    ELSE j_build(device, deviceError)

S_fromColor(format, deviceError) ==
  /\ lastOp' = Op("fromColor", fromColor(format, deviceError).outcome,
                  fromColor(format, deviceError).gpu, FALSE)
  /\ UNCHANGED <<poolVars, clientVars, asyncVars, histVars, terminated>>

\* S.fromNoise(width, height)
fromNoise(deviceError) ==
  IF n = Null
    THEN [outcome |-> "error", gpu |-> FALSE]
    ELSE j_build(device, deviceError)

S_fromNoise(deviceError) ==
  /\ lastOp' = Op("fromNoise", fromNoise(deviceError).outcome,
                  fromNoise(deviceError).gpu, FALSE)
  /\ UNCHANGED <<poolVars, clientVars, asyncVars, histVars, terminated>>

\* the MIME types that reach a worker pool, and no MIME type at all
PoolMimeInputs == {"image/basis", "image/ktx2", Undefined}

\* The scheduler: the dispatches, the responses and the destroy of the client.
\* (p.destroy changes no field of the scheduler; it is part of ClientNext.)
Next ==
  \/ \E mime \in PoolMimeInputs : S_fromUrl(mime) /\ UNCHANGED <<lastOp, auxVars>>
  \/ \E mime \in PoolMimeInputs : S_fromBuffer(mime) /\ UNCHANGED <<lastOp, auxVars>>
  \/ \E mime \in PoolMimeInputs : S_fromBlob(mime) /\ UNCHANGED <<lastOp, auxVars>>
  \/ \E pl \in Pools : p_fromBlob(pl) /\ UNCHANGED <<lastOp, auxVars>>
  \/ \E m \in requests : \E err, deviceError \in BOOLEAN :
        onmessage(m, err, deviceError) /\ UNCHANGED <<lastOp, auxVars>>
  \/ S_destroy /\ UNCHANGED <<lastOp, auxVars>>

Spec == Init /\ [][Next]_vars

\* what a call of fromUrl / fromBuffer / fromBlob returned to its caller
Routed(name, mime) ==
  IF Route(mime) = "throw" THEN Op(name, "error", FALSE, FALSE)
  ELSE Op(name, "pending", FALSE, requests' # requests)

\* The life cycle: every call of the loader object, observed in lastOp, the
\* continuations of these calls and the destroy of a pool.
ClientNext ==
  /\ \/ \E mime \in MimeInputs : S_fromUrl(mime) /\ lastOp' = Routed("fromUrl", mime)
     \/ \E mime \in MimeInputs : S_fromBuffer(mime) /\ lastOp' = Routed("fromBuffer", mime)
     \/ \E mime \in MimeInputs : S_fromBlob(mime) /\ lastOp' = Routed("fromBlob", mime)
     \/ \E pl \in Pools : p_fromBlob(pl) /\ lastOp' = Idle
     \/ \E m \in requests : \E err, deviceError \in BOOLEAN :
           onmessage(m, err, deviceError) /\ lastOp' = Idle
     \/ ImageDecoded /\ lastOp' = Idle
     \/ \E format \in ColorFormats : \E deviceError \in BOOLEAN : S_fromColor(format, deviceError)
     \/ \E deviceError \in BOOLEAN : S_fromNoise(deviceError)
     \/ S_destroy /\ lastOp' = Idle
     \/ \E pl \in Pools : p_destroy(pl) /\ lastOp' = Idle
  /\ Len(futures') + blobReads'["basis"] + blobReads'["ktx"] <= MaxClientCalls
  /\ UNCHANGED auxVars

SpecClient == Init /\ [][ClientNext]_vars

\* The scheduler with workers that answer a request a second time.
UnknownNext ==
  /\ \/ Next
     \/ \E pl \in Pools : \E id \in UnknownIds : \E err, deviceError \in BOOLEAN :
           onmessageUnknown(pl, id, err, deviceError) /\ UNCHANGED <<lastOp, auxVars>>
  /\ Len(futures') + blobReads'["basis"] + blobReads'["ktx"] <= MaxUnknownCalls

SpecUnknown == Init /\ [][UnknownNext]_vars

TypeOK ==
  /\ C \in 1..(MaxCalls + 1)
  /\ DOMAIN d \subseteq 1..MaxCalls
  /\ \A pl \in Pools : loader[pl].created => loader[pl].workerPool \in 1..V
  /\ Len(futures) <= MaxCalls

\* ------------------------------------------------------------ basis worker
\* src/webgpu-texture-tool.js, the worker half.  A job is a request message
\* the worker received; its id is its index in jobs.  stage: what the job
\* waits for ("fetch": fetch(url), "read": response.arrayBuffer(), "codec":
\* the then of BASIS_INITIALIZED), or "done" when no callback of the job is
\* left to run.  posted: the number of postMessage calls made for its id.
\* src: what the message carried; early: it was received before BasisFile was
\* set; registered: the position of its callback among the callbacks given to
\* BASIS_INITIALIZED.then, 0 if it has none; started: the position of its
\* transcode among the transcodes of the worker, 0 if it had none; ready:
\* BasisFile was set when its transcode started.
Sources == {"url", "buffer", "none"}

NewJob == [stage |-> "done", posted |-> 0, payload |-> "none", src |-> "none",
           early |-> FALSE, registered |-> 0, started |-> 0, ready |-> FALSE]

\* the transcodes the worker has started, the callbacks it has registered
Started == {j \in DOMAIN jobs : jobs[j].started > 0}

Registrations == {j \in DOMAIN jobs : jobs[j].registered > 0}

\* fail(id, errorMsg): postMessage({id, error})
fail(job) == [job EXCEPT !.stage = "done", !.posted = @ + 1, !.payload = "error"]

\* transcode(id, arrayBuffer, supportedFormats, mipmaps); decoded: the file is
\* valid, startTranscoding and every transcodeImage succeed.  Every path ends
\* in basisFileFail (fail) or in the postMessage of the levels.
transcode(job, decoded) ==
  LET run == [job EXCEPT !.started = Cardinality(Started) + 1,
                         !.ready = (codec = "ready")]
  IN IF decoded
       THEN [run EXCEPT !.stage = "done", !.posted = @ + 1, !.payload = "success"]
       ELSE fail(run)

\* a worker that transcodes without waiting for the codec
whenInitialized_NoWait(job, decoded) == transcode(job, decoded)

\* if (BasisFile) transcode(...) else BASIS_INITIALIZED.then(() => transcode(...));
\* the callback of a then on a rejected promise never runs
whenInitialized(job, decoded) ==
  IF codec = "ready" THEN transcode(job, decoded)
  ELSE IF codec = "loading"
    THEN [job EXCEPT !.stage = "codec", !.registered = Cardinality(Registrations) + 1]
  ELSE [job EXCEPT !.stage = "done", !.registered = Cardinality(Registrations) + 1]

\* a callback of BASIS_INITIALIZED.then is due: the promise is resolved and
\* its reactions, which are microtasks, run before the next task of the worker
CallbackDue == codec = "ready" /\ \E j \in DOMAIN jobs : jobs[j].stage = "codec"

\* onmessage of the worker
W_onmessage(src, decoded) ==
  LET job == [NewJob EXCEPT !.src = src, !.early = (codec = "loading")] IN
  /\ ~CallbackDue
  /\ Len(jobs) < MaxJobs
  /\ jobs' = Append(jobs,
        IF src = "url" THEN [job EXCEPT !.stage = "fetch"]
        ELSE IF src = "buffer" THEN whenInitialized(job, decoded)
        ELSE fail(job))
  /\ UNCHANGED codec

\* fetch(url) settles: the then callback runs with the response, or the
\* promise was rejected (no reject handler is attached)
W_fetched(j, res) ==
  /\ ~CallbackDue
  /\ jobs[j].stage = "fetch"
  /\ jobs' = [jobs EXCEPT ![j] =
        IF res = "ok" THEN [@ EXCEPT !.stage = "read"]
        ELSE IF res = "notOk" THEN fail(@)
        ELSE [@ EXCEPT !.stage = "done"]]
  /\ UNCHANGED codec

\* response.arrayBuffer() settles
W_read(j, res, decoded) ==
  /\ ~CallbackDue
  /\ jobs[j].stage = "read"
  /\ jobs' = [jobs EXCEPT ![j] =
        IF res = "ok" THEN whenInitialized(@, decoded)
        ELSE [@ EXCEPT !.stage = "done"]]
  /\ UNCHANGED codec

\* BASIS() settles: BasisFile is set and initializeBasis runs, or the promise
\* BASIS_INITIALIZED is rejected and the callbacks waiting on it are dropped
W_initialized(ok) ==
  /\ codec = "loading"
  /\ codec' = IF ok THEN "ready" ELSE "failed"
  /\ jobs' = IF ok THEN jobs
             ELSE [j \in DOMAIN jobs |->
                     IF jobs[j].stage = "codec" THEN [jobs[j] EXCEPT !.stage = "done"]
                     ELSE jobs[j]]

\* a callback registered with BASIS_INITIALIZED.then runs: the reactions of
\* a promise run in the order in which they were registered
W_then(j, decoded) ==
  /\ jobs[j].stage = "codec"
  /\ codec = "ready"
  /\ \A i \in DOMAIN jobs : jobs[i].stage = "codec" => jobs[j].registered <= jobs[i].registered
  /\ jobs' = [jobs EXCEPT ![j] = transcode(@, decoded)]
  /\ UNCHANGED codec

FetchResults == {"ok", "notOk", "rejected"}

WorkerNext ==
  /\ \/ \E src \in Sources : \E decoded \in BOOLEAN : W_onmessage(src, decoded)
     \/ \E j \in DOMAIN jobs : \E res \in FetchResults : W_fetched(j, res)
     \/ \E j \in DOMAIN jobs : \E res \in {"ok", "rejected"} : \E decoded \in BOOLEAN :
           W_read(j, res, decoded)
     \/ \E ok \in BOOLEAN : W_initialized(ok)
     \/ \E j \in DOMAIN jobs : \E decoded \in BOOLEAN : W_then(j, decoded)
  /\ UNCHANGED <<loaderVars, gpuVars, tableVars, container, target, buildVars, dataVars, fileVars>>

SpecWorker == Init /\ [][WorkerNext]_vars

\* ------------------------------------------------------------- loader table
\* S.fromUrl / S.fromBuffer / S.fromBlob from the destroyed check to the call
\* of the loader B returns; for the image loader T, to the format it asks the
\* client for.  (What a worker pool does with the request is the scheduler.)
Deliver(api, declared, name, mime, bc) ==
  IF n = Null \/ B(mime) = "throw"
    THEN /\ lastRequest' = Request(api, declared, name, mime, "throw", "none", 0, {}, "none")
         /\ UNCHANGED <<strategy, instances, served>>
    ELSE LET s == B(mime)
             g == f_getLoader(s)
         IN /\ served[s] < MaxServed
            /\ strategy' = [strategy EXCEPT ![s] = g.loader]
            /\ instances' = [instances EXCEPT ![s] = IF g.created THEN @ + 1 ELSE @]
            /\ served' = [served EXCEPT ![s] = @ + 1]
            /\ lastRequest' =
                 Request(api, declared, name, mime, "routed", s, g.loader,
                         supportedFormatList(bc),
                         IF s = "image" THEN T_format(mime, supportedFormatList(bc))
                         ELSE "none")

D_fromUrl(declared, name, bc) ==
  Deliver("fromUrl", declared, name, UrlMime(declared, name), bc)

D_fromBuffer(declared, name, bc) ==
  Deliver("fromBuffer", declared, name, BufferMime(declared, name), bc)

\* type: blob.type, Undefined for the empty string of a blob without a type
D_fromBlob(type, bc) ==
  Deliver("fromBlob", Undefined, << >>, type, bc)

DeclaredMimes == {Undefined, "image/png", "image/jpeg", "image/basis", "application/x"}

BlobTypes == {Undefined, "image/bmp", "image/ktx", "application/x"}

TableNext ==
  /\ \/ \E declared \in DeclaredMimes : \E name \in Names : \E bc \in BOOLEAN :
           D_fromUrl(declared, name, bc)
     \/ \E declared \in DeclaredMimes : \E name \in Names \cup {<< >>} : \E bc \in BOOLEAN :
           D_fromBuffer(declared, name, bc)
     \/ \E type \in BlobTypes : \E bc \in BOOLEAN : D_fromBlob(type, bc)
  /\ UNCHANGED <<loaderVars, workerVars, gpuVars, container, target, buildVars, dataVars, fileVars>>

SpecTable == Init /\ [][TableNext]_vars

\* --------------------------------------------------------- transcode target
\* WTT_FORMAT_MAP of the two workers: transcode target -> texture format
WTT_FORMAT_MAP(name) ==
  CASE name = "BC1_RGB" -> "bc1-rgb-unorm"
    [] name = "BC3_RGBA" -> "bc3-rgba-unorm"
    [] name \in {"BC7_RGBA", "BC7_M5_RGBA"} -> "bc7-rgba-unorm"
    [] name = "ETC1_RGB" -> "etc1-rgb-unorm"
    [] name = "ETC2_RGBA" -> "etc2-rgba8unorm"
    [] name = "ASTC_4x4_RGBA" -> "astc-4x4-rgba-unorm"
    [] name = "PVRTC1_4_RGB" -> "pvrtc1-4bpp-rgb-unorm"
    [] name = "PVRTC1_4_RGBA" -> "pvrtc1-4bpp-rgba-unorm"
    [] name = "RGBA32" -> "rgba8unorm"
    [] name = "RGB565" -> "rgb565unorm"
    [] name = "RGBA4444" -> "rgba4unorm"

\* the entries of WTT_FORMAT_MAP with uncompressed: true
Uncompressed == {"RGBA32", "RGB565", "RGBA4444"}

alphaFormatPreference ==
  <<"ETC2_RGBA", "BC7_M5_RGBA", "BC3_RGBA", "ASTC_4x4_RGBA", "PVRTC1_4_RGBA", "RGBA32">>

opaqueFormatPreference ==
  <<"ETC1_RGB", "BC7_M5_RGBA", "BC1_RGB", "ETC2_RGBA", "ASTC_4x4_RGBA", "PVRTC1_4_RGB",
    "RGB565", "RGBA32">>

\* the first entry of a preference list whose format is supported, from
\* position i on; "none" when the loop ends without one
RECURSIVE FirstSupported(_, _, _)
FirstSupported(list, supported, i) ==
  IF i > Len(list) THEN "none"
  ELSE IF WTT_FORMAT_MAP(list[i]) \in supported THEN list[i]
  ELSE FirstSupported(list, supported, i + 1)

\* parseFile of the ktx worker, for a file with needsTranscoding: the loop
\* over alphaFormatPreference, "throw" when it finds no target
parseFile(hasAlpha, supported) ==
  IF FirstSupported(alphaFormatPreference, supported, 1) = "none" THEN "throw"
  ELSE FirstSupported(alphaFormatPreference, supported, 1)

\* a selection that takes the first entry of each chain, supported or not
basisFormat_First(hasAlpha, supported) ==
  IF hasAlpha THEN "ETC2_RGBA" ELSE "ETC1_RGB"

\* transcode of the basis worker: the two if / else if chains over
\* supportedFormats[BASIS_FORMAT.cTF...]
basisFormat(hasAlpha, supported) ==
  LET has(name) == WTT_FORMAT_MAP(name) \in supported IN
  IF hasAlpha
    THEN IF has("ETC2_RGBA") THEN "ETC2_RGBA"
         ELSE IF has("BC7_RGBA") THEN "BC7_RGBA"
         ELSE IF has("BC3_RGBA") THEN "BC3_RGBA"
         ELSE IF has("ASTC_4x4_RGBA") THEN "ASTC_4x4_RGBA"
         ELSE IF has("PVRTC1_4_RGBA") THEN "PVRTC1_4_RGBA"
         ELSE "RGBA32"
    ELSE IF has("ETC1_RGB") THEN "ETC1_RGB"
         ELSE IF has("BC7_RGBA") THEN "BC7_RGBA"
         ELSE IF has("BC1_RGB") THEN "BC1_RGB"
         ELSE IF has("ETC2_RGBA") THEN "ETC2_RGBA"
         ELSE IF has("ASTC_4x4_RGBA") THEN "ASTC_4x4_RGBA"
         ELSE IF has("PVRTC1_4_RGB") THEN "PVRTC1_4_RGB"
         ELSE IF has("RGB565") THEN "RGB565"
         ELSE "RGBA32"

\* the formats a request can list besides rgba8unorm, which every client lists
OptionalFormats == {"etc1-rgb-unorm", "etc2-rgba8unorm", "bc1-rgb-unorm", "bc3-rgba-unorm",
                    "bc7-rgba-unorm", "astc-4x4-rgba-unorm", "pvrtc1-4bpp-rgb-unorm",
                    "pvrtc1-4bpp-rgba-unorm", "rgb565unorm"}

Containers ==
  {Container(w, a, {"rgba8unorm"} \cup f) :
     w \in {"basis", "ktx"}, a \in BOOLEAN, f \in SUBSET OptionalFormats}

\* a worker has a request with a file to transcode
TranscodeInit ==
  /\ Constructed
  /\ NoBuild
  /\ NoData
  /\ NoFile
  /\ container \in Containers
  /\ target = "none"

\* the format selection of transcode (basis) and of parseFile (ktx)
SelectTarget ==
  /\ target = "none"
  /\ target' = IF container.worker = "basis"
                 THEN basisFormat(container.hasAlpha, container.supported)
                 ELSE parseFile(container.hasAlpha, container.supported)
  /\ UNCHANGED <<container, loaderVars, workerVars, gpuVars, tableVars, buildVars, dataVars, fileVars>>

SpecTranscode == TranscodeInit /\ [][SelectTarget]_vars

\* ------------------------------------------------- transcode of a basis file
\* a failure path that leaves the file open
basisFileFail_Leak == <<"postMessage">>

\* basisFileFail(id, basisFile, errorMsg): fail (postMessage of the error),
\* basisFile.close(), basisFile.delete()
basisFileFail == <<"postMessage", "close", "delete">>

\* the loop `for (const mipLevel of mipLevels)` from the call number x on, and
\* what follows it: the first transcodeImage that fails ends the call in
\* basisFileFail; after the last one the file is closed and deleted and the
\* result is posted.  levels: `if (wttFormat.uncompressed || !mipmaps) levels = 1`
RECURSIVE transcodeImages(_, _)
transcodeImages(bf, x) ==
  LET levels == IF basisFormat(bf.hasAlpha, bf.supported) \in Uncompressed \/ ~bf.mipmaps
                  THEN 1 ELSE bf.levels
  IN IF x > levels THEN <<"close", "delete", "postMessage">>
     ELSE IF bf.failAt = x THEN <<"transcodeImage">> \o basisFileFail
     ELSE <<"transcodeImage">> \o transcodeImages(bf, x + 1)

\* transcode(id, arrayBuffer, supportedFormats, mipmaps): the calls it makes
\* on the file it opens and on postMessage.  (The format selection always
\* ends in a format, so `basisFormat === undefined` is never taken.)
transcodeCalls(bf) ==
  <<"new BasisFile">>
  \o (IF bf.images = 0 \/ bf.levels = 0 THEN basisFileFail
      ELSE <<"startTranscoding">>
           \o (IF ~bf.startOk THEN basisFileFail ELSE transcodeImages(bf, 1)))

\* transcode is called with a file of up to MaxLevels levels
FileInit ==
  /\ Constructed
  /\ NoTranscode
  /\ NoBuild
  /\ NoData
  /\ basisFile \in
       UNION {{BasisFile(im, lv, al, ok, fa, su, mi) :
                 im \in {0, 1}, lv \in 0..MaxLevels, fa \in 0..MaxLevels,
                 su \in {{"rgba8unorm"}, {"rgba8unorm", "bc7-rgba-unorm"}}} :
              al \in BOOLEAN, ok \in BOOLEAN, mi \in BOOLEAN}
  /\ calls = << >>

\* the call of transcode, to its return
W_transcode ==
  /\ calls = << >>
  /\ calls' = transcodeCalls(basisFile)
  /\ UNCHANGED <<basisFile, loaderVars, workerVars, gpuVars, tableVars, container, target,
                 buildVars, dataVars>>

SpecBasisFile == FileInit /\ [][W_transcode]_vars

\* ---------------------------------------------------------- texture clients
\* G.getMipmapPipeline(format): the pipeline of the cache, or a new one that is
\* put in the cache.  A pipeline is named by the number of its creation.
getMipmapPipeline_NoCache(format) ==
  [pipeline |-> pipelinesCreated[format] + 1, pipelines |-> pipelines, created |-> TRUE]

getMipmapPipeline(format) ==
  IF pipelines[format] # 0
    THEN [pipeline |-> pipelines[format], pipelines |-> pipelines, created |-> FALSE]
    ELSE [pipeline |-> pipelinesCreated[format] + 1,
          pipelines |-> [pipelines EXCEPT ![format] = pipelinesCreated[format] + 1],
          created |-> TRUE]

\* G.generateMipmap(texture, descriptor): synchronous, from getMipmapPipeline
\* to device.queue.submit([encoder.finish()])
G_generateMipmap(format) ==
  /\ pipelines' = getMipmapPipeline(format).pipelines
  /\ pipelinesCreated' =
        [pipelinesCreated EXCEPT ![format] =
           IF getMipmapPipeline(format).created THEN @ + 1 ELSE @]

\* what a call of a texture client did.  mips: the call generates mipmaps;
\* submitted: the command buffer of the mip generation was submitted;
\* delivered: the caller has the result; waiting: generateMipmap is
\* suspended in `await this.mipmapReady`
Texture(client, from, format, mips, pipeline, submitted, delivered, waiting) ==
  [client |-> client, from |-> from, format |-> format, mips |-> mips,
   pipeline |-> pipeline, submitted |-> submitted, delivered |-> delivered,
   waiting |-> waiting]

\* s && this.mipmapGenerator.generateMipmap(c, l), new E(...) of the client j
j_finish(from, format, s) ==
  /\ IF s THEN G_generateMipmap(format)
          ELSE UNCHANGED <<pipelines, pipelinesCreated>>
  /\ textures' = Append(textures,
        Texture("j", from, format, s,
                IF s THEN getMipmapPipeline(format).pipeline ELSE 0,
                s, TRUE, FALSE))

\* j.fromTextureData(textureData, options)
j_fromTextureData(format, mipmaps) ==
  /\ Len(textures) < MaxTextures
  /\ device # Null
  /\ j_finish("data", format, mipmaps /\ canGenerateMipmaps(format))

\* j.fromImageBitmap(bitmap, format, options): an async function without an
\* await, its body runs to the return in the call
j_fromImageBitmap(format, mipmaps) ==
  /\ Len(textures) < MaxTextures
  /\ device # Null
  /\ j_finish("bitmap", format, mipmaps)

\* WebGPUTextureClient.textureFromTextureData of src/webgpu-texture-tool.js;
\* generateMipmaps: its value after `generateMipmaps && wtFormat.canGenerateMipmaps`.
\* this.generateMipmap(...) is called without await and the result is returned.
textureFromTextureData(format, generateMipmaps) ==
  /\ Len(textures) < MaxTextures
  /\ device # Null
  /\ textures' = Append(textures,
        Texture("WebGPUTextureClient", "data", format, generateMipmaps, 0,
                FALSE, TRUE, generateMipmaps))
  /\ UNCHANGED <<pipelines, pipelinesCreated>>

\* WebGPUTextureClient.textureFromImageBitmap: await this.generateMipmap(...)
textureFromImageBitmap(format, generateMipmaps) ==
  /\ Len(textures) < MaxTextures
  /\ device # Null
  /\ textures' = Append(textures,
        Texture("WebGPUTextureClient", "bitmap", format, generateMipmaps, 0,
                FALSE, ~generateMipmaps, generateMipmaps))
  /\ UNCHANGED <<pipelines, pipelinesCreated>>

\* WebGPUTextureClient.generateMipmap after `await this.mipmapReady`: the render
\* passes, defaultQueue.submit, and the return to the caller that awaits it
generateMipmap(k) ==
  /\ textures[k].waiting
  /\ device # Null
  /\ textures' = [textures EXCEPT ![k].waiting = FALSE, ![k].submitted = TRUE,
                                  ![k].delivered = TRUE]
  /\ UNCHANGED <<pipelines, pipelinesCreated>>

BitmapFormats == {"rgba8unorm", "bgra8unorm"}

GpuNext ==
  /\ \/ \E format \in MipFormats : \E mipmaps \in BOOLEAN : j_fromTextureData(format, mipmaps)
     \/ \E format \in BitmapFormats : \E mipmaps \in BOOLEAN : j_fromImageBitmap(format, mipmaps)
     \/ \E format \in MipFormats : \E generateMipmaps \in BOOLEAN :
           textureFromTextureData(format, generateMipmaps)
     \/ \E format \in BitmapFormats : \E generateMipmaps \in BOOLEAN :
           textureFromImageBitmap(format, generateMipmaps)
     \/ \E k \in DOMAIN textures : generateMipmap(k)
  /\ UNCHANGED <<loaderVars, workerVars, tableVars, container, target, buildVars, dataVars, fileVars>>

SpecGpu == Init /\ [][GpuNext]_vars

\* -------------------------------------------------------- texture building
\* Math.floor(Math.log2(x)) for an integer x >= 1
RECURSIVE log2floor(_)
log2floor(x) == IF x < 2 THEN 0 ELSE 1 + log2floor(x \div 2)

Max(x, y) == IF x >= y THEN x ELSE y

\* a level count taken from the smaller side
A_Min(a, e) == log2floor(IF a <= e THEN a ELSE e) + 1

\* A(a, e) / calculateMipLevels(width, height)
A(a, e) == log2floor(Max(a, e)) + 1

\* Math.ceil(x / 2)
CeilHalf(x) == (x + 1) \div 2

\* b: the formats with a `compressed` entry, all of them in blocks of 4 x 4
CompressedFormats == {"bc1-rgb-unorm", "bc2-rgba-unorm", "bc3-rgba-unorm", "bc7-rgba-unorm",
                      "etc1-rgb-unorm", "etc2-rgba8unorm", "astc-4x4-rgba-unorm",
                      "pvrtc1-4bpp-rgb-unorm", "pvrtc1-4bpp-rgba-unorm"}

\* r.compressed || {blockBytes: 4, blockWidth: 1, blockHeight: 1}
blockWidth(format) == IF format \in CompressedFormats THEN 4 ELSE 1

\* Math.ceil(x / block) * block
BlockRound(x, block) == ((x + block - 1) \div block) * block

\* a view of one level and one layer of the texture of the call ("dst") or
\* of the temporary texture of generateMipmap ("tmp")
View(tex, level, layer) == [tex |-> tex, level |-> level, layer |-> layer]

NoView == View("none", 0, 0)

\* one call on the device, the queue or the command encoder.  tex, level,
\* layer: the texture (level, layer) it creates or writes; src: the view it
\* reads; width, height, layers, levels: its extent or descriptor
Cmd(op, tex, level, layer, src, width, height, layers, levels) ==
  [op |-> op, tex |-> tex, level |-> level, layer |-> layer, src |-> src,
   width |-> width, height |-> height, layers |-> layers, levels |-> levels]

\* the GPUTextureDescriptor of the texture of the call
Descriptor(format, width, height, layers, mipLevelCount, render) ==
  [format |-> format, width |-> width, height |-> height, layers |-> layers,
   mipLevelCount |-> mipLevelCount, render |-> render]

\* t.size.depthOrArrayLayers || 1
LayersOf(desc) == IF desc.layers = 0 THEN 1 ELSE desc.layers

\* the texture generateMipmap renders into
RenderTarget(desc) == IF desc.render THEN "dst" ELSE "tmp"

\* a level loop that samples level 0 of the texture in every pass
RECURSIVE LevelPasses_FromBase(_, _, _, _, _)
LevelPasses_FromBase(desc, c, h, g, M) ==
  IF h >= desc.mipLevelCount THEN << >>
  ELSE <<Cmd("renderPass", RenderTarget(desc), M, c, g, 0, 0, 1, 1)>>
         \o LevelPasses_FromBase(desc, c, h + 1, g, M + 1)

\* G.generateMipmap, the loop `for (h = 1; h < t.mipLevelCount; ++h)` of layer
\* c: a render pass into view M++ of the render target that samples g, then
\* g is that view
RECURSIVE LevelPasses(_, _, _, _, _)
LevelPasses(desc, c, h, g, M) ==
  IF h >= desc.mipLevelCount THEN << >>
  ELSE <<Cmd("renderPass", RenderTarget(desc), M, c, g, 0, 0, 1, 1)>>
         \o LevelPasses(desc, c, h + 1, View(RenderTarget(desc), M, c), M + 1)

\* G.generateMipmap, the loop `for (c = 0; c < s; ++c)`: g starts as level 0
\* of layer c of the texture of the call, M as 1 in place and as 0 otherwise
RECURSIVE LayerPasses(_, _)
LayerPasses(desc, c) ==
  IF c >= LayersOf(desc) THEN << >>
  ELSE LevelPasses(desc, c, 1, View("dst", 0, c), IF desc.render THEN 1 ELSE 0)
         \o LayerPasses(desc, c + 1)

\* a copy loop that takes level g of the temporary texture for level g
RECURSIVE Copies_SameLevel(_, _, _, _)
Copies_SameLevel(desc, g, width, height) ==
  IF g >= desc.mipLevelCount THEN << >>
  ELSE <<Cmd("copyTextureToTexture", "dst", g, 0, View("tmp", g, 0),
             width, height, LayersOf(desc), 1)>>
         \o Copies_SameLevel(desc, g + 1, CeilHalf(width), CeilHalf(height))

\* G.generateMipmap, the loop `for (g = 1; g < t.mipLevelCount; ++g)` of the
\* copies, with the extent c halved (Math.ceil) after each copy
RECURSIVE Copies(_, _, _, _)
Copies(desc, g, width, height) ==
  IF g >= desc.mipLevelCount THEN << >>
  ELSE <<Cmd("copyTextureToTexture", "dst", g, 0, View("tmp", g - 1, 0),
             width, height, LayersOf(desc), 1)>>
         \o Copies(desc, g + 1, CeilHalf(width), CeilHalf(height))

\* a generator that destroys the temporary texture before it submits
G_commands_DestroyEarly(desc) ==
  (IF desc.render THEN << >>
   ELSE <<Cmd("createTexture", "tmp", 0, 0, NoView, CeilHalf(desc.width),
              CeilHalf(desc.height), LayersOf(desc), desc.mipLevelCount - 1)>>)
  \o LayerPasses(desc, 0)
  \o (IF desc.render THEN << >>
      ELSE Copies(desc, 1, CeilHalf(desc.width), CeilHalf(desc.height)))
  \o (IF desc.render THEN << >>
      ELSE <<Cmd("destroy", "tmp", 0, 0, NoView, 0, 0, 0, 0)>>)
  \o <<Cmd("submit", "none", 0, 0, NoView, 0, 0, 0, 0)>>

\* G.generateMipmap(texture, descriptor) of a 2d texture: the temporary
\* texture when the usage has no RENDER_ATTACHMENT, the render passes, the
\* copies, queue.submit, and the destroy of the temporary texture
G_commands(desc) ==
  (IF desc.render THEN << >>
   ELSE <<Cmd("createTexture", "tmp", 0, 0, NoView, CeilHalf(desc.width),
              CeilHalf(desc.height), LayersOf(desc), desc.mipLevelCount - 1)>>)
  \o LayerPasses(desc, 0)
  \o (IF desc.render THEN << >>
      ELSE Copies(desc, 1, CeilHalf(desc.width), CeilHalf(desc.height)))
  \o <<Cmd("submit", "none", 0, 0, NoView, 0, 0, 0, 0)>>
  \o (IF desc.render THEN << >>
      ELSE <<Cmd("destroy", "tmp", 0, 0, NoView, 0, 0, 0, 0)>>)

\* the createTexture call of a client
CreateTexture(desc) ==
  Cmd("createTexture", "dst", 0, 0, NoView, desc.width, desc.height, desc.layers,
      desc.mipLevelCount)

\* the writeTexture calls of the levels of the data: one per level and slice,
\* at mipLevel levelIndex.  (A slice stored by F.setSlice has no sliceIndex
\* field, so origin.z is left to its default 0.)
RECURSIVE Writes(_, _)
Writes(src, level) ==
  IF level >= src.levels THEN << >>
  ELSE <<Cmd("writeTexture", "dst", level, 0, NoView, 0, 0, 1, 1)>>
         \o Writes(src, level + 1)

\* j.fromImageBitmap(bitmap, format, options)
j_bitmapDescriptor(src) ==
  Descriptor(src.format, src.width, src.height, 0,
             IF src.mipmaps THEN A(src.width, src.height) ELSE 1, TRUE)

j_bitmapCommands(src) ==
  <<CreateTexture(j_bitmapDescriptor(src)),
    Cmd("copyExternalImageToTexture", "dst", 0, 0, NoView, src.width, src.height, 1, 1)>>
  \o (IF src.mipmaps THEN G_commands(j_bitmapDescriptor(src)) ELSE << >>)

\* j.fromTextureData(textureData, options): s = options.mipmaps &&
\* r.canGenerateMipmaps; mipLevelCount = levels.length > 1 ? levels.length :
\* s ? A(width, height) : 1; the usage has no RENDER_ATTACHMENT
j_generates(src) == src.mipmaps /\ canGenerateMipmaps(src.format)

j_dataDescriptor(src) ==
  Descriptor(src.format,
             BlockRound(src.width, blockWidth(src.format)),
             BlockRound(src.height, blockWidth(src.format)),
             src.depth,
             IF src.levels > 1 THEN src.levels
             ELSE IF j_generates(src) THEN A(src.width, src.height) ELSE 1,
             FALSE)

j_dataCommands(src) ==
  <<CreateTexture(j_dataDescriptor(src))>>
  \o Writes(src, 0)
  \o (IF j_generates(src) THEN G_commands(j_dataDescriptor(src)) ELSE << >>)

\* WebGPUTextureClient.textureFromTextureData: src.mipmaps is generateMipmaps
\* after `generateMipmaps && wtFormat.canGenerateMipmaps`; the usage has
\* OUTPUT_ATTACHMENT when it is true
legacyDescriptor(src) ==
  Descriptor(src.format, BlockRound(src.width, blockWidth(src.format)),
             BlockRound(src.height, blockWidth(src.format)), 1,
             IF src.levels > 1 THEN src.levels
             ELSE IF src.mipmaps THEN A(src.width, src.height) ELSE 1,
             src.mipmaps)

\* the sizes, formats and options of the textures the model builds
Dims == (1..MaxDim) \cup {64, 100, 257}

TextureSources ==
  {Source("bitmap", f, w, h, 0, 1, m) :
     f \in BitmapFormats, w \in Dims, h \in Dims, m \in BOOLEAN}
  \cup UNION {{Source("data", f, w, h, dp, lv, m) :
                 f \in {"rgba8unorm", "bc1-rgb-unorm", "bc7-rgba-unorm"}, w \in Dims, h \in Dims, m \in BOOLEAN} :
               dp \in {0, 2}, lv \in {1, 3}}
  \cup {Source("legacy", "rgba8unorm", w, h, 0, lv, m) :
          w \in Dims, h \in Dims, lv \in {1, 3}, m \in BOOLEAN}

\* a client is called with a bitmap or with TextureData
BuildInit ==
  /\ Constructed
  /\ NoTranscode
  /\ NoData
  /\ NoFile
  /\ source \in TextureSources
  /\ commands = << >>
  /\ result = NoResult

\* the call of the client, to its return
Build ==
  /\ ~result.done
  /\ device # Null
  /\ commands' =
       IF source.kind = "bitmap" THEN j_bitmapCommands(source)
       ELSE IF source.kind = "data" THEN j_dataCommands(source)
       ELSE <<CreateTexture(legacyDescriptor(source))>> \o Writes(source, 0)
  /\ result' =
       IF source.kind = "bitmap"
         THEN Result(TRUE, j_bitmapDescriptor(source).mipLevelCount, FALSE)
       ELSE IF source.kind = "data"
         THEN Result(TRUE, j_dataDescriptor(source).mipLevelCount, FALSE)
       ELSE Result(TRUE, legacyDescriptor(source).mipLevelCount, source.mipmaps)
  /\ UNCHANGED <<source, loaderVars, workerVars, gpuVars, tableVars, container, target, dataVars, fileVars>>

\* generateMipmap of the legacy client resumes after `await this.mipmapReady`:
\* the loop `for (i = 1; i < mipLevelCount; ++i)` in place, then
\* defaultQueue.submit
LegacyGenerate ==
  /\ result.waiting
  /\ device # Null
  /\ commands' = commands
                   \o LevelPasses(legacyDescriptor(source), 0, 1, View("dst", 0, 0), 1)
                   \o <<Cmd("submit", "none", 0, 0, NoView, 0, 0, 0, 0)>>
  /\ result' = [result EXCEPT !.waiting = FALSE]
  /\ UNCHANGED <<source, loaderVars, workerVars, gpuVars, tableVars, container, target, dataVars, fileVars>>

BuildNext == Build \/ LegacyGenerate

SpecBuild == BuildInit /\ [][BuildNext]_vars

\* ----------------------------------------------------- TextureData, actions
\* the images: whole buffers of up to MaxBytes bytes, and the views into a
\* buffer of MaxBytes bytes
Images ==
  {Image(FALSE, Buffer(len), 0, len) : len \in 0..MaxBytes}
  \cup UNION {{Image(TRUE, Buffer(MaxBytes), off, size) : size \in 0..(MaxBytes - off)} :
               off \in 0..MaxBytes}

\* the options a caller passes with an image: none, or a range inside it
OptionsOf(t) ==
  {Options(0, 0)}
  \cup (IF t.byteLength = MaxBytes THEN {Options(1, 0), Options(1, 1)} ELSE {})

\* new I(format, width, height, image, options): without an image, or with
\* one, which the constructor sets as slice 0 of level 0
DataInit ==
  /\ Constructed
  /\ NoTranscode
  /\ NoBuild
  /\ NoFile
  /\ thrown = FALSE
  /\ sets = 0
  /\ gpuCalls = 0
  /\ uploads = << >>
  /\ uploadFailed = FALSE
  /\ \/ /\ textureData = I("rgba8unorm", BaseWidth, BaseHeight)
        /\ lastSet = NoSetCall
     \/ \E t \in Images : \E r \in OptionsOf(t) :
          /\ textureData = setSlice(I("rgba8unorm", BaseWidth, BaseHeight), 0, 0, t, r)
          /\ lastSet = SetCall(0, 0, t, r)

\* textureData.getLevel(level).setSlice(e, t, r), before the TextureData is
\* handed to a client
D_setSlice(level, e, t, r) ==
  /\ gpuCalls = 0
  /\ sets < MaxSets
  /\ sets' = sets + 1
  /\ thrown' = setSlice_throws(textureData, level, e)
  /\ textureData' = setSlice(textureData, level, e, t, r)
  /\ lastSet' = SetCall(level, e, t, r)
  /\ UNCHANGED <<gpuCalls, uploads, uploadFailed, loaderVars, workerVars, gpuVars, tableVars,
                 container, target, buildVars, fileVars>>

\* the slices of the levels that were made
SlicesSet(data) ==
  {x \in LevelIndices \X SliceIndices :
     data.levels[x[1]].made /\ data.levels[x[1]].slices[x[2]].set}

\* the length of a JavaScript array whose defined indices are S
ArrayLength(S) == IF S = {} THEN 0 ELSE 1 + CHOOSE x \in S : \A y \in S : y <= x

\* origin.z of the write of a slice: {z: h.sliceIndex}.  F.setSlice stores
\* {buffer, byteOffset, byteLength} and nothing sets sliceIndex, so the member
\* is undefined and the device takes the default of GPUOrigin3D, 0
OriginZ(e) == 0

\* queue.writeTexture({texture, mipLevel, origin: {z}}, buffer, {offset, ...}, extent)
WriteTexture(mipLevel, z, sl) ==
  [mipLevel |-> mipLevel, z |-> z, buffer |-> sl.buffer, offset |-> sl.byteOffset]

\* `for (h of g.slices)` from index e on: the calls made and whether the loop
\* threw.  A hole of the array is iterated as undefined, and reading
\* h.sliceIndex of it throws a TypeError
RECURSIVE SliceWrites(_, _)
SliceWrites(g, e) ==
  IF e >= ArrayLength({x \in SliceIndices : g.slices[x].set})
    THEN [calls |-> << >>, failed |-> FALSE]
  ELSE IF ~g.slices[e].set THEN [calls |-> << >>, failed |-> TRUE]
  ELSE LET rest == SliceWrites(g, e + 1)
       IN [calls |-> <<WriteTexture(g.levelIndex, OriginZ(e), g.slices[e])>> \o rest.calls,
           failed |-> rest.failed]

\* `for (g of e.levels)` from index x on: a hole is iterated as undefined, and
\* reading g.width of it throws a TypeError
RECURSIVE LevelWrites(_, _)
LevelWrites(data, x) ==
  IF x >= ArrayLength({y \in LevelIndices : data.levels[y].made})
    THEN [calls |-> << >>, failed |-> FALSE]
  ELSE IF ~data.levels[x].made THEN [calls |-> << >>, failed |-> TRUE]
  ELSE LET here == SliceWrites(data.levels[x], 0)
           rest == LevelWrites(data, x + 1)
       IN IF here.failed THEN here
          ELSE [calls |-> here.calls \o rest.calls, failed |-> rest.failed]

\* j.fromTextureData(textureData, options): createTexture, then one
\* writeTexture per slice of each level, in the order of the arrays
D_fromTextureData ==
  /\ gpuCalls = 0
  /\ device # Null
  /\ uploads' = LevelWrites(textureData, 0).calls
  /\ uploadFailed' = LevelWrites(textureData, 0).failed
  /\ gpuCalls' = 1 + Len(LevelWrites(textureData, 0).calls)
  /\ UNCHANGED <<textureData, thrown, lastSet, sets, loaderVars, workerVars, gpuVars, tableVars,
                 container, target, buildVars, fileVars>>

DataNext ==
  \/ \E level \in LevelIndices : \E e \in SliceIndices : \E t \in Images :
       \E r \in OptionsOf(t) : D_setSlice(level, e, t, r)
  \/ D_fromTextureData

SpecData == DataInit /\ [][DataNext]_vars

\* ------------------------------------------------------------- properties
Futures == 1..Len(futures)

\* the request of future k is in the pending table
InTable(k) == \E i \in DOMAIN d : d[i].fut = k

\* the requests whose response this step handles
Handled == requests \ requests'

\* this step dispatches a request to pool pl
IsDispatch(pl) == \E m \in requests' \ requests : m.pool = pl

Settled == {"resolved", "rejected"}

\* C1: a step that destroys a pool rejects every future that is pending on
\* that pool, with the "destroyed" error, and a future rejected that way is
\* never resolved afterwards.
C1_DestroyRejectsPending ==
  [][/\ \A pl \in poolDestroyCalled' \ poolDestroyCalled : \A k \in Futures :
          (futures[k].pool = pl /\ InTable(k)) =>
             (futures'[k].state = "rejected" /\ futures'[k].reason = "destroyed")
     /\ \A k \in Futures :
          futures[k].reason = "destroyed" => futures'[k].state = "rejected"]_vars

\* C2: a step that handles the response for a recorded id removes the entry
\* from the pending table and settles the caller's future, which was pending:
\* no handled response leaves its future unsettled.
C2_ResponseSettlesFuture ==
  [][\A m \in Handled : m.id \in DOMAIN d =>
        /\ m.id \notin DOMAIN d'
        /\ futures[d[m.id].fut].state = "pending"
        /\ futures'[d[m.id].fut].state \in Settled]_vars

\* C3: a pool never holds more than 4 workers, however many requests are
\* outstanding.
C3_AtMostFourWorkers == \A pl \in Pools : loader[pl].workerPool <= 4

\* four requests are outstanding at the same time on a pool of four workers
C3_Witness ==
  \E pl \in Pools : loader[pl].workerPool = 4 /\ loader[pl].outstandingRequests >= 4

\* the size, the counter and the cursor a dispatch finds (a pool is built
\* with one worker on its first use)
SizeBefore(pl) == IF loader[pl].created THEN loader[pl].workerPool ELSE 1

\* C4: a dispatch increments the outstanding counter; it adds a worker exactly
\* when the incremented counter is at least the pool size and the pool is
\* below 4 workers; otherwise the request goes to the worker at index
\* (cursor mod pool size) and the cursor advances by one.  No other step adds
\* a worker to a pool.
C4_GrowOnlyWhenBusy ==
  [][\A pl \in Pools :
       IF IsDispatch(pl)
         THEN LET m == CHOOSE x \in requests' \ requests : TRUE
                  out == loader[pl].outstandingRequests + 1
              IN /\ loader'[pl].outstandingRequests = out
                 /\ IF out >= SizeBefore(pl) /\ SizeBefore(pl) < 4
                      THEN loader'[pl].workerPool = SizeBefore(pl) + 1
                      ELSE /\ loader'[pl].workerPool = SizeBefore(pl)
                           /\ m.worker = loader[pl].nextWorker % SizeBefore(pl)
                           /\ loader'[pl].nextWorker = loader[pl].nextWorker + 1
         ELSE loader[pl].created => loader'[pl].workerPool = loader[pl].workerPool]_vars

\* a request went round robin to the second worker of a pool that did not grow
C4_Witness ==
  \E m \in requests :
     /\ loader[m.pool].workerPool < 4
     /\ loader[m.pool].nextWorker >= 2
     /\ m.worker = 1
     /\ loader[m.pool].outstandingRequests < loader[m.pool].workerPool

\* C5: once a pool is destroyed its workers are terminated and no step
\* dispatches a request to it.
C5_DestroyedPoolRefuses ==
  [][\A pl \in poolDestroyCalled : pl \in terminated /\ ~IsDispatch(pl)]_vars

\* C6: a call of fromUrl, fromBuffer, fromColor or fromNoise made after
\* destroy() fails, issues no GPU call and sends no message to a worker.
C6_CallsFailAfterDestroy ==
  (clientDestroyCalled /\ lastOp.op \in {"fromUrl", "fromBuffer", "fromColor", "fromNoise"})
    => (lastOp.outcome = "error" /\ ~lastOp.gpu /\ ~lastOp.sent)

\* fromColor was called on a destroyed client that still has a request pending
C6_Witness ==
  clientDestroyCalled /\ lastOp.op = "fromColor" /\ lastOp.outcome = "error"
    /\ requests # {}

\* C7: after the client is destroyed, the response of a request that was
\* pending at the destroy rejects its future.
C7_PendingRejectedAfterDestroy ==
  [][clientDestroyCalled =>
       \A m \in Handled :
          (m.id \in DOMAIN d /\ d[m.id].fut <= futuresAtDestroy) =>
             futures'[d[m.id].fut].state = "rejected"]_vars

\* C8 (as stated): the request is in the pending table at the moment its
\* message is posted.
C8_RecordedBeforeSend == \A m \in requests : m.recorded

\* C8 (amended): the request is recorded in the dispatch step that posts its
\* message, so every request whose response can still be handled is in the
\* pending table.
C8_RecordedWithinDispatch == \A m \in requests : m.id \in DOMAIN d

\* a message that was posted before its request was recorded is in flight
C8_Witness == \E m \in requests : ~m.recorded /\ m.id \in DOMAIN d

\* C9: ids are allocated strictly increasing over all pools, so no id is
\* allocated twice, and the entry the pending table holds under an id is the
\* one request that allocated this id.
C9_IdsStrictlyIncreasing ==
  /\ \A a, b \in Futures : a < b => futures[a].id < futures[b].id
  /\ \A k \in Futures : futures[k].id < C
  /\ \A i \in DOMAIN d : futures[d[i].fut].id = i

\* requests of two pools are pending together
C9_Witness ==
  \E i, i2 \in DOMAIN d : futures[d[i].fut].pool # futures[d[i2].fut].pool

C11_EveryResponseDecrements ==
  [][\A m \in Handled :
       loader'[m.pool].outstandingRequests = loader[m.pool].outstandingRequests - 1]_vars

\* this step handles a response that answers no request in flight
IsUnknownResponse ==
  /\ requests' = requests
  /\ \E pl \in Pools : /\ loader[pl].created
                        /\ loader'[pl].outstandingRequests < loader[pl].outstandingRequests

InFlight(pl) == Cardinality({m \in requests : m.pool = pl})

\* C12: a response whose id is not in the pending table is dropped: no future
\* is resolved or rejected, no entry of the table changes, and the pool keeps
\* its workers and its requests in flight, so it serves the later requests.
C12_UnknownIdDropped ==
  [][IsUnknownResponse =>
       /\ d' = d
       /\ futures' = futures
       /\ C' = C
       /\ \A pl \in Pools : /\ loader'[pl].created = loader[pl].created
                             /\ loader'[pl].workerPool = loader[pl].workerPool
                             /\ loader'[pl].nextWorker = loader[pl].nextWorker]_vars

\* an unknown response was handled while a request waited (the counter is
\* below the requests in flight), and that request of the same pool is still
\* in the table, after another one was resolved
C12_Witness ==
  \E m \in requests :
     /\ loader[m.pool].outstandingRequests < InFlight(m.pool)
     /\ m.id \in DOMAIN d
     /\ futures[d[m.id].fut].state = "pending"
     /\ \E k \in Futures : futures[k].pool = m.pool /\ futures[k].state = "resolved"

\* this step handles the response to m and rejects the future of m with the
\* error the response carries
IsErrorResponse(m) ==
  /\ m \in Handled
  /\ m.id \in DOMAIN d
  /\ futures[d[m.id].fut].state = "pending"
  /\ futures'[d[m.id].fut].reason = "error"

C14_EveryRequestAnswered ==
  \A j \in DOMAIN jobs :
     /\ jobs[j].posted <= 1
     /\ jobs[j].stage = "done" => jobs[j].posted = 1

\* C15: for every call that produces a texture and generates its mipmaps (from
\* a decoded bitmap or from TextureData), the caller has the result only
\* after the command buffer of the mip generation was submitted to the queue.
C15_DeliveredAfterSubmit ==
  \A k \in DOMAIN textures :
     (textures[k].mips /\ textures[k].delivered) => textures[k].submitted

\* C16: the mipmap generator creates a render pipeline at most once for each
\* output format, and every generateMipmap call of a format uses the pipeline
\* of the cache for that format.
C16_OnePipelinePerFormat ==
  /\ \A f \in MipFormats : pipelinesCreated[f] <= 1 /\ pipelines[f] = pipelinesCreated[f]
  /\ \A k \in DOMAIN textures :
       (textures[k].client = "j" /\ textures[k].mips) =>
          (textures[k].pipeline = pipelines[textures[k].format] /\ textures[k].pipeline # 0)

\* three generateMipmap calls, from bitmaps and from TextureData, two of them
\* of the same format
C16_Witness ==
  \E a, b, c \in DOMAIN textures :
     /\ a < b /\ b < c
     /\ \A k \in {a, b, c} : textures[k].client = "j" /\ textures[k].mips
     /\ textures[a].format = textures[c].format
     /\ textures[a].format # textures[b].format
     /\ textures[a].from # textures[c].from

\* C17: each loader of the table is made on its first use and never again:
\* at most one instance of it exists, and every request routed to it, the
\* ones routed to it as the wildcard included, is handed to that instance.
C17_OneInstancePerStrategy ==
  /\ \A s \in Strategies : instances[s] <= 1 /\ strategy[s] = instances[s]
  /\ \A s \in Strategies : served[s] > 0 => instances[s] = 1
  /\ lastRequest.outcome = "routed" =>
       (lastRequest.instance = 1 /\ strategy[lastRequest.strategy] = 1)

\* the image loader served a second request, this one as the wildcard, and
\* a worker pool served two
C17_Witness ==
  /\ served["image"] >= 2
  /\ served["ktx"] >= 2
  /\ lastRequest.strategy = "image"
  /\ lastRequest.mime = "application/x"

\* the MIME type of the request has an entry of its own in the table
Registered(mime) == mime # Undefined /\ StrategyOf(mime) # "*"

\* C18: a request with a declared MIME type, a URL or a file name, whose MIME
\* type (the declared one, or the one of the extension) has no loader of its
\* own, is routed to the wildcard loader and does not fail.
C18_UnregisteredGoesToWildcard ==
  (/\ lastRequest.api \in {"fromUrl", "fromBuffer"}
   /\ lastRequest.declared # Undefined \/ lastRequest.name # << >>
   /\ ~Registered(lastRequest.mime))
    => (lastRequest.outcome = "routed" /\ lastRequest.strategy = "image")

\* C19: the negotiation of the image loader returns the format F it asks for
\* when F is in the supported list of the client, and rgba8unorm when it is
\* not.
C19_NegotiatedFormat ==
  (lastRequest.outcome = "routed" /\ lastRequest.strategy = "image") =>
     IF formatOf(lastRequest.mime) \in lastRequest.supported
       THEN lastRequest.format = formatOf(lastRequest.mime)
       ELSE lastRequest.format = "rgba8unorm"

\* a JPEG found by its upper-case extension asks for rgb8unorm, which a
\* device with the compressed formats does not list
C19_Witness ==
  /\ lastRequest.name = <<"a", "JPG">>
  /\ lastRequest.declared = Undefined
  /\ formatOf(lastRequest.mime) = "rgb8unorm"
  /\ "bc7-rgba-unorm" \in lastRequest.supported
  /\ lastRequest.format = "rgba8unorm"

\* the preference list of the case of the container
PreferenceList == IF container.hasAlpha THEN alphaFormatPreference ELSE opaqueFormatPreference

\* C20: the transcode target of a container is the first entry of the
\* preference list of its case (has alpha / opaque) whose format the request
\* lists as supported, and it is an uncompressed raw format only when no
\* compressed entry of that list is supported.
C20_FirstOfPreferenceList ==
  target # "none" =>
    /\ WTT_FORMAT_MAP(target) =
         WTT_FORMAT_MAP(FirstSupported(PreferenceList, container.supported, 1))
    /\ target \in Uncompressed =>
         \A i \in DOMAIN PreferenceList :
            PreferenceList[i] \notin Uncompressed =>
               WTT_FORMAT_MAP(PreferenceList[i]) \notin container.supported

\* C21: when the supported list of the request holds rgba8unorm only, the
\* target of an opaque file is the uncompressed raw rgba8unorm, never a
\* compressed opaque format.
C21_OpaqueRawFallback ==
  (/\ target # "none"
   /\ ~container.hasAlpha
   /\ container.supported = {"rgba8unorm"})
    => (/\ target = "RGBA32"
        /\ target \in Uncompressed
        /\ WTT_FORMAT_MAP(target) = "rgba8unorm")

\* the basis worker selected the target of an opaque file for such a request
C21_Witness ==
  /\ container.worker = "basis"
  /\ ~container.hasAlpha
  /\ container.supported = {"rgba8unorm"}
  /\ target = "RGBA32"

\* 2^x
RECURSIVE Pow2(_)
Pow2(x) == IF x = 0 THEN 1 ELSE 2 * Pow2(x - 1)

\* the client computed the length of the full chain for the texture
ChainComputed ==
  /\ result.done
  /\ source.mipmaps
  /\ \/ source.kind = "bitmap"
     \/ source.kind = "data" /\ source.levels = 1 /\ canGenerateMipmaps(source.format)
     \/ source.kind = "legacy" /\ source.levels = 1

\* C22: for every width and height >= 1 the computed length of the mip chain
\* is floor(log2(max(width, height))) + 1, the L with
\* 2^(L-1) <= max(width, height) < 2^L; a 257 x 100 texture gets 9 levels.
C22_ChainLength ==
  ChainComputed =>
    /\ result.mipLevels >= 1
    /\ Pow2(result.mipLevels - 1) <= Max(source.width, source.height)
    /\ Max(source.width, source.height) < Pow2(result.mipLevels)
    /\ (source.width = 257 /\ source.height = 100) => result.mipLevels = 9

C22_Witness ==
  /\ ChainComputed
  /\ source.width = 257 /\ source.height = 100
  /\ result.mipLevels = 9

\* a single-level 64 x 64 TextureData was built with options.mipmaps set
Built64 ==
  /\ result.done
  /\ source.kind = "data"
  /\ source.levels = 1
  /\ source.mipmaps
  /\ source.width = 64 /\ source.height = 64

\* the commands hold exactly one copy into level `level` of the texture, of
\* the extent width x height
CopyInto(level, width, height) ==
  /\ Cardinality({k \in DOMAIN commands :
                    /\ commands[k].op = "copyTextureToTexture"
                    /\ commands[k].tex = "dst"
                    /\ commands[k].level = level}) = 1
  /\ \A k \in DOMAIN commands :
       (/\ commands[k].op = "copyTextureToTexture"
        /\ commands[k].tex = "dst"
        /\ commands[k].level = level)
         => (commands[k].width = width /\ commands[k].height = height)

\* C23 as stated: a single-level 64 x 64 TextureData in a compressed format,
\* built with mipmap generation requested, has exactly 7 mip levels and its
\* level 6 is 1 x 1.
C23_CompressedFullChain ==
  (Built64 /\ source.format \in CompressedFormats)
    => (result.mipLevels = 7 /\ CopyInto(6, 1, 1))

\* C23, amended: built with mipmap generation requested, a single-level
\* 64 x 64 TextureData in a compressed format has exactly 1 mip level and no
\* command of the mipmap generator is issued for it; in an uncompressed
\* format it has exactly 7 levels, of which level 6 is 1 x 1 and no
\* level 7 is written.
C23_FullChainWhenSupported ==
  Built64 =>
    IF source.format \in CompressedFormats
      THEN /\ result.mipLevels = 1
           /\ \A k \in DOMAIN commands : commands[k].op \in {"createTexture", "writeTexture"}
           /\ \A k \in DOMAIN commands : commands[k].tex = "dst"
      ELSE /\ result.mipLevels = 7
           /\ CopyInto(6, 1, 1)
           /\ \A k \in DOMAIN commands : commands[k].level < 7

C23_Witness ==
  /\ Built64
  /\ source.format = "bc7-rgba-unorm"
  /\ result.mipLevels = 1
  /\ Len(commands) = 2

\* the descriptor of the texture that was built
DescriptorOf(src) ==
  IF src.kind = "bitmap" THEN j_bitmapDescriptor(src)
  ELSE IF src.kind = "data" THEN j_dataDescriptor(src)
  ELSE legacyDescriptor(src)

\* the mipmap generator ran for the texture and submitted its commands
Generated ==
  /\ result.done
  /\ ~result.waiting
  /\ \E k \in DOMAIN commands : commands[k].op = "submit"

\* the render passes, the copies and the temporary textures of the generator
RenderPasses == {k \in DOMAIN commands : commands[k].op = "renderPass"}

LevelCopies == {k \in DOMAIN commands : commands[k].op = "copyTextureToTexture"}

Temporaries ==
  {k \in DOMAIN commands : commands[k].op = "createTexture" /\ commands[k].tex = "tmp"}

\* the view a render pass writes
TargetOf(k) == View(commands[k].tex, commands[k].level, commands[k].layer)

\* the level of the texture of the call a view stands for: level M of the
\* temporary texture is copied into level M + 1
LevelOf(view) == IF view.tex = "tmp" THEN view.level + 1 ELSE view.level

\* C29: for every layer and every level h from 1 to mipLevelCount - 1 the
\* generator records exactly one render pass for level h of that layer, and
\* that pass samples level h - 1 of the same layer (level 0 of the texture for
\* h = 1, the view written by the preceding pass afterwards); no pass reads
\* another layer or another level, and the passes of a layer are recorded in
\* increasing level order.
C29_EachLevelFromPrevious ==
  Generated =>
    LET desc == DescriptorOf(source) IN
    /\ \A c \in 0..(LayersOf(desc) - 1) : \A h \in 1..(desc.mipLevelCount - 1) :
         Cardinality({k \in RenderPasses :
                        commands[k].layer = c /\ LevelOf(TargetOf(k)) = h}) = 1
    /\ \A k \in RenderPasses :
         /\ commands[k].layer \in 0..(LayersOf(desc) - 1)
         /\ LevelOf(TargetOf(k)) \in 1..(desc.mipLevelCount - 1)
         /\ commands[k].src.layer = commands[k].layer
         /\ LevelOf(commands[k].src) = LevelOf(TargetOf(k)) - 1
         /\ \/ commands[k].src = View("dst", 0, commands[k].layer)
            \/ \E b \in RenderPasses : b < k /\ TargetOf(b) = commands[k].src
    /\ \A a \in RenderPasses : \A b \in RenderPasses :
         (a < b /\ commands[a].layer = commands[b].layer)
           => LevelOf(TargetOf(a)) < LevelOf(TargetOf(b))

C29_Witness ==
  /\ Generated
  /\ source.kind = "data" /\ source.depth = 2
  /\ result.mipLevels = 9
  /\ Cardinality(RenderPasses) = 16
  /\ \E k \in RenderPasses : commands[k].layer = 1 /\ commands[k].src = View("tmp", 6, 1)

\* C30: for a texture without render-target usage the generator allocates one
\* temporary texture with mipLevelCount - 1 levels, and for every g from 1 to
\* mipLevelCount - 1 it records exactly one copy, from level g - 1 of the
\* temporary texture into level g of the texture; nothing else of the
\* generator writes the texture, so level 0 is never written by it.
C30_CopiedBackOncePerLevel ==
  (Generated /\ ~DescriptorOf(source).render) =>
    LET desc == DescriptorOf(source) IN
    /\ Cardinality(Temporaries) = 1
    /\ \A k \in Temporaries : commands[k].levels = desc.mipLevelCount - 1
    /\ \A g \in 1..(desc.mipLevelCount - 1) :
         Cardinality({k \in LevelCopies : commands[k].level = g}) = 1
    /\ \A k \in LevelCopies :
         /\ commands[k].tex = "dst"
         /\ commands[k].level \in 1..(desc.mipLevelCount - 1)
         /\ commands[k].src = View("tmp", commands[k].level - 1, 0)
    /\ \A k \in RenderPasses : commands[k].tex = "tmp"

C30_Witness ==
  /\ Generated
  /\ ~DescriptorOf(source).render
  /\ result.mipLevels = 7
  /\ Cardinality(LevelCopies) = 6
  /\ \E k \in LevelCopies : commands[k].level = 6 /\ commands[k].src = View("tmp", 5, 0)

\* the entry of the TextureData the last setSlice addressed
Addressed == textureData.levels[lastSet.level].slices[lastSet.slice]

\* the bytes an entry of F.slices denotes: byteLength bytes at byteOffset of
\* its buffer
BytesOf(sl) == SubSeq(sl.buffer, sl.byteOffset + 1, sl.byteOffset + sl.byteLength)

\* the bytes of an image: the whole ArrayBuffer, or the window of the view
ImageBytes(t) ==
  IF t.view THEN SubSeq(t.buffer, t.byteOffset + 1, t.byteOffset + t.byteLength)
  ELSE t.buffer

\* C24: a setSlice for a slice index that is already set on that level
\* fails, leaves the TextureData, and so the slice set first, as it was, and
\* happens while no device call has been made for the TextureData.
C24_SecondSetFails ==
  [][(/\ sets' = sets + 1
      /\ textureData.levels[lastSet'.level].made
      /\ textureData.levels[lastSet'.level].slices[lastSet'.slice].set)
       => (/\ thrown'
           /\ textureData' = textureData
           /\ gpuCalls = 0
           /\ gpuCalls' = 0)]_vars

C24_Witness ==
  /\ thrown
  /\ lastSet.called
  /\ Addressed.set
  /\ Addressed # StoredSlice(lastSet.image, lastSet.options)
  /\ BytesOf(Addressed) # ImageBytes(lastSet.image)
  /\ gpuCalls = 0

\* C25: after a slice was set from an image of N bytes, given as a whole
\* buffer or as a view at an offset into a larger buffer, the entry read back
\* has byteLength N and denotes the same bytes.
C25_SliceRoundTrip ==
  (/\ lastSet.called
   /\ ~thrown
   /\ lastSet.options = Options(0, 0))
    => (/\ Addressed.set
        /\ Addressed.byteLength = Len(ImageBytes(lastSet.image))
        /\ BytesOf(Addressed) = ImageBytes(lastSet.image))

C25_Witness ==
  /\ sets = 1
  /\ lastSet.called
  /\ ~thrown
  /\ lastSet.image = Image(TRUE, Buffer(2), 1, 1)
  /\ lastSet.options = Options(0, 0)
  /\ BytesOf(Addressed) = <<2>>
  /\ Addressed.byteLength = 1

\* C26: the first request dispatched through a freshly constructed pool (one
\* worker, cursor 0, nothing outstanding) grows the pool to 2 workers and is
\* posted to the added worker, index 1, not to the initial worker, index 0.
C26_FirstDispatchGrows ==
  [][\A pl \in Pools :
       (IsDispatch(pl) /\ getLoader(pl) = NewPool)
         => (/\ loader'[pl].workerPool = 2
             /\ loader'[pl].nextWorker = 0
             /\ \A m \in requests' \ requests : m.worker = 1)]_vars

C26_Witness ==
  \E m \in requests :
     /\ m.worker = 1
     /\ loader[m.pool].workerPool = 2
     /\ loader[m.pool].nextWorker = 0
     /\ loader[m.pool].outstandingRequests = 1
     /\ Cardinality({k \in DOMAIN futures : futures[k].pool = m.pool}) = 1

\* C28: for every pool the outstanding counter equals the number of requests
\* dispatched through the pool whose response has not been handled yet, and
\* it is never negative.
C28_CounterMatchesInFlight ==
  \A pl \in Pools :
     loader[pl].created =>
       /\ loader[pl].outstandingRequests = InFlight(pl)
       /\ loader[pl].outstandingRequests >= 0

\* the codec of the worker is initialized at most once and, once it is ready,
\* stays ready for every later request
InitializedOnce == codec' # codec => (codec = "loading" /\ codec' \in {"ready", "failed"})

\* every transcode the worker started found the codec ready
StartedWhenReady == \A j \in Started : jobs[j].ready

\* the requests received before the initialization completed that were
\* transcoded
EarlyStarted == {j \in Started : jobs[j].early}

Destroys == {k \in DOMAIN commands : commands[k].op = "destroy"}

Submits == {k \in DOMAIN commands : commands[k].op = "submit"}

\* C31: the generator never destroys the texture of the call.  On the
\* temporary-texture path the temporary texture is destroyed exactly once,
\* after the submit, which itself follows every render pass and every copy;
\* on the in-place path, and when the generator does not run, nothing is
\* destroyed.
C31_OnlyTemporaryDestroyed ==
  /\ \A k \in Destroys : commands[k].tex = "tmp"
  /\ (~Generated \/ DescriptorOf(source).render) => Destroys = {}
  /\ (Generated /\ ~DescriptorOf(source).render) =>
       /\ Cardinality(Destroys) = 1
       /\ Cardinality(Submits) = 1
       /\ \A k \in Destroys : \A b \in Submits :
            /\ b < k
            /\ \A a \in RenderPasses \cup LevelCopies \cup Temporaries : a < b

C31_Witness ==
  /\ Generated
  /\ ~DescriptorOf(source).render
  /\ result.mipLevels = 4
  /\ Destroys = {Len(commands)}
  /\ Submits = {Len(commands) - 1}
  /\ Cardinality(LevelCopies) = 3

\* C32: when a texture is built from a TextureData, every slice of every
\* level is written exactly once, to the mip level of its level index and to
\* the layer of its slice index, so no two writes go to the same place and
\* the texture does not depend on the order of the writes.
C32_SliceToOwnLayer ==
  (gpuCalls > 0 /\ ~uploadFailed) =>
    /\ \A x \in SlicesSet(textureData) :
         Cardinality({k \in DOMAIN uploads :
                        uploads[k] = WriteTexture(x[1], x[2],
                                                  textureData.levels[x[1]].slices[x[2]])}) = 1
    /\ \A a \in DOMAIN uploads : \A b \in DOMAIN uploads :
         (a # b) => (uploads[a].mipLevel # uploads[b].mipLevel \/ uploads[a].z # uploads[b].z)

\* the positions of a call in the calls of transcode
CallsOf(name) == {k \in DOMAIN calls : calls[k] = name}

\* C33: every call of transcode closes the basis file it opened exactly once
\* and deletes it exactly once, after the close and after its last use of the
\* file, and posts at most one message, on the success path and on every
\* failure path.
C33_FileClosedOnce ==
  calls # << >> =>
    /\ CallsOf("new BasisFile") = {1}
    /\ Cardinality(CallsOf("close")) = 1
    /\ Cardinality(CallsOf("delete")) = 1
    /\ Cardinality(CallsOf("postMessage")) <= 1
    /\ \A c \in CallsOf("close") :
         /\ \A k \in CallsOf("delete") : c < k
         /\ \A k \in CallsOf("startTranscoding") \cup CallsOf("transcodeImage") : k < c

\* the second of three transcodeImage calls failed
C33_Witness ==
  calls = <<"new BasisFile", "startTranscoding", "transcodeImage", "transcodeImage",
            "postMessage", "close", "delete">>

\* the size of mip level g of a texture whose level 0 has the side base
LevelSide(base, g) == Max(1, ShiftRight(base, g))

\* C34: for every base size and every generated level g, the extent of the
\* copy from the temporary texture into level g of the texture is the size of
\* level g, max(1, base >> g), in width and in height.
C34_CopyExtentIsLevelSize ==
  (Generated /\ ~DescriptorOf(source).render) =>
    \A k \in LevelCopies :
       /\ commands[k].width = LevelSide(DescriptorOf(source).width, commands[k].level)
       /\ commands[k].height = LevelSide(DescriptorOf(source).height, commands[k].level)
====
